---- MODULE Spec2Model ----
(***************************************************************************)
(* A model of the push-based reactive engine of blooky.ts: the stream      *)
(* graph (stream, pipe, filter, merge, hold, accum, listen, shed), the     *)
(* traversal (flow, flowLazy), the two-phase injection (drip), teardown    *)
(* and reference counts (clear, countRefs) and the timer-fed producers     *)
(* (moments.interval, moments.framecount).                                 *)
(*                                                                         *)
(* Objects live in three heaps, each a sequence indexed by identity:       *)
(*   streams  the StreamState objects,                                     *)
(*   props    the cells closed over by hold (the variable v of a Prop),    *)
(*   funcs    the observer closures handed to listen.                      *)
(* A JavaScript Set is a duplicate-free sequence in insertion order.       *)
(* A value is an integer; a reference to stream n is the integer 0 - n.    *)
(***************************************************************************)
EXTENDS Integers, Sequences, FiniteSets, TLC

VARIABLES
    streams,        \* heap of StreamState objects
    props,          \* heap of held cells
    funcs,          \* heap of observer closures
    observerPhase,  \* drip.observerPhase
    stack,          \* the drip calls in progress, innermost last
    observed,       \* what the logging observers have recorded
    history,        \* the top-level drip calls that have returned
    caught,         \* errors caught inside observers (try/catch around drip)
    built,          \* the calls top-level code made after the initial script
    timers          \* the host's timers and requested animation frames

vars == <<streams, props, funcs, observerPhase, stack, observed, history, caught, built, timers>>

\* ------------------------------------------------------------------ bounds
MaxDrips == 2
MaxVal == 2
MaxBuild == 1
MaxStreams == 5
MaxShedDrips == 4
MaxCalls == 2
MaxTicks == 4
MaxClock == 2
MaxLimit == 2

\* ------------------------------------------------------------ JS Set, Array
SeqToSet(q) == {q[i] : i \in DOMAIN q}

Has(q, x) == x \in SeqToSet(q)

SetAdd(q, x) == IF Has(q, x) THEN q ELSE Append(q, x)

SetDelete(q, x) == SelectSeq(q, LAMBDA y : y # x)

\* ------------------------------------------------------------ values
Ref(n) == 0 - n

IsRef(v) == v < 0

Deref(v) == 0 - v

\* An input of a functor: one value, or the array flowLazy hands to a merge stream.
One(v) == [arr |-> FALSE, v |-> v, a |-> <<>>]

Arr(a) == [arr |-> TRUE, v |-> 0, a |-> a]

\* The user functions of the model.
dbl(v) == 2 * v

mix(a, b) == 2 * a + b

odd(v) == v % 2 = 1

\* A function that is not total: v => { if (v === 2) throw ...; return v + 1 }.
chk(v) == v + 1

Throws1(f, v) == f = "chk" /\ v = 2

\* A function that picks a stream: v => v === 1 ? r : i, for the streams 1
\* and 4 of PhaseWorld.
sel(v) == IF v = 1 THEN Ref(1) ELSE Ref(4)

Apply1(f, v) == CASE f = "dbl" -> dbl(v)
                  [] f = "chk" -> chk(v)
                  [] f = "sel" -> sel(v)

Apply2(f, a, b) == CASE f = "mix" -> mix(a, b)

\* A predicate that is not total: v => { if (v === 4) throw ...; return v < 4 }.
sml(v) == v < 4

TestThrows(p, v) == p = "sml" /\ v = 4

Test(p, v) == CASE p = "odd" -> odd(v)
                [] p = "sml" -> sml(v)

\* Array.prototype.reduce without an initial value: a left fold.
RECURSIVE ReduceFrom(_, _, _)
ReduceFrom(f, acc, a) ==
    IF a = <<>> THEN acc ELSE ReduceFrom(f, Apply2(f, acc, Head(a)), Tail(a))

Reduce(f, a) == ReduceFrom(f, Head(a), Tail(a))

\* ------------------------------------------------------------ functors
parrot == [k |-> "parrot", f |-> "", p |-> 0]

MapFn(f) == [k |-> "map", f |-> f, p |-> 0]

MergeFn(f) == [k |-> "merge", f |-> f, p |-> 0]

AccumFn(f, p) == [k |-> "accum", f |-> f, p |-> p]

\* performance.now is a Prop<number>: the host's clock is the first cell of a
\* program that uses moments.
NowCell == 1

\* elapsed = (t) => now() - t
ElapsedFn == [k |-> "elapsed", f |-> "", p |-> NowCell]

\* The functor of a framecount stream, which reads the property p held on the
\* stream itself. Of a FrameCountState the model keeps the count field.
FrameFn(p) == [k |-> "frame", f |-> "", p |-> p]

ThrewQuiet == [ok |-> TRUE, v |-> 0]

\* The outcome of a functor call that threw.
Threw == [ok |-> FALSE, v |-> 0]

Ret(v) == [ok |-> TRUE, v |-> v]

\* The functor of a merge stream: throws on an empty array (and on a value
\* that is no array at all: its length is undefined), else folds with f.
mergeFunctor(f, in) ==
    IF ~in.arr \/ in.a = <<>> THEN Threw ELSE Ret(Reduce(f, in.a))

accumFunctorFromZero(P, f, p, in) == Ret(Apply2(f, in.v, 0))

\* The functor of the stream accum pipes: f(v, p()).
accumFunctor(P, f, p, in) == Ret(Apply2(f, in.v, P[p]))

callFunctorEcho(P, fn, in) ==
    CASE fn.k = "parrot" -> Ret(in.v)
      [] fn.k = "map"    -> IF Throws1(fn.f, in.v) THEN Threw ELSE Ret(in.v)
      [] fn.k = "merge"  -> mergeFunctor(fn.f, in)
      [] fn.k = "accum"  -> accumFunctor(P, fn.f, fn.p, in)
      [] fn.k = "elapsed" -> Ret(P[fn.p] - in.v)
      [] fn.k = "frame"  -> Ret(P[fn.p] + 1)

\* s[STREAM_FUNCTOR](v)
callFunctor(P, fn, in) ==
    CASE fn.k = "parrot" -> Ret(in.v)
      [] fn.k = "map"    -> IF Throws1(fn.f, in.v) THEN Threw ELSE Ret(Apply1(fn.f, in.v))
      [] fn.k = "merge"  -> mergeFunctor(fn.f, in)
      [] fn.k = "accum"  -> accumFunctor(P, fn.f, fn.p, in)
      [] fn.k = "elapsed" -> Ret(P[fn.p] - in.v)
      [] fn.k = "frame"  -> Ret(P[fn.p] + 1)

\* ------------------------------------------------------------ construction
\* A world is the three heaps together.
Empty == [streams |-> <<>>, props |-> <<>>, funcs |-> <<>>]

NoFilter == ""

stream(W, fn) ==
    [W EXCEPT !.streams = Append(@, [functor |-> fn, filter |-> NoFilter,
                                     next |-> <<>>, lazyNext |-> <<>>,
                                     observers |-> <<>>, updates |-> <<>>])]

\* The identity of the object the last stream(...) call returned.
New(W) == Len(W.streams)

pipe(W, s, f) ==
    LET W1 == stream(W, f)
    IN  [W1 EXCEPT !.streams[s].next = SetAdd(@, New(W1))]

filter(W, s, pred) ==
    LET W1 == pipe(W, s, parrot)
    IN  [W1 EXCEPT !.streams[New(W1)].filter = pred]

merge(W, srcs, f) ==
    LET W1 == stream(W, MergeFn(f))
    IN  [W1 EXCEPT !.streams = [n \in DOMAIN @ |->
            IF Has(srcs, n) THEN [@[n] EXCEPT !.lazyNext = SetAdd(@, New(W1))]
                            ELSE @[n]]]

\* hold allocates the cell v and adds its setter to s.updates; the Prop it
\* returns is the cell's identity.
hold(W, s, v) ==
    [W EXCEPT !.props = Append(@, v),
              !.streams[s].updates = SetAdd(@, Len(W.props) + 1)]

NewProp(W) == Len(W.props)

listen(W, s, f) ==
    [W EXCEPT !.funcs = Append(@, f),
              !.streams[s].observers = SetAdd(@, Len(W.funcs) + 1)]

\* observers.delete.bind(observers, f)
unsubscribe(W, s, f) == [W EXCEPT !.streams[s].observers = SetDelete(@, f)]

\* accum: the piped functor reads the Prop that hold returns afterwards.
accum(W, s, f, seed) ==
    LET W1 == pipe(W, s, AccumFn(f, Len(W.props) + 1))
    IN  hold(W1, New(W1), seed)

\* The observer closures of the model.
LogObs == [k |-> "log", s |-> 0, v |-> 0, p |-> 0, o |-> 0]

RedripObs(s, v) == [k |-> "redrip", s |-> s, v |-> v, p |-> 0, o |-> 0]

RedripCatchObs(s, v) == [k |-> "redripCatch", s |-> s, v |-> v, p |-> 0, o |-> 0]

\* () => { throw new Error(...) }
FailObs == [k |-> "fail", s |-> 0, v |-> 0, p |-> 0, o |-> 0]

\* An observer that calls the unsubscribe function of observer g of stream s.
UnsubObs(s, g) == [k |-> "unsub", s |-> s, v |-> 0, p |-> 0, o |-> g]

\* An observer that calls listen(t)(f) with a new recording function f.
SubObs(t) == [k |-> "sub", s |-> t, v |-> 0, p |-> 0, o |-> 0]

\* The observer of bind_attr_stream, subscribed to s for an element that is
\* connected (1) or not (0): it updates the attribute and subscribes anew if
\* the element is connected, and unsubscribes itself.
BindObs(s, connected) == [k |-> "bind", s |-> s, v |-> connected, p |-> 0, o |-> 0]

ShedObs(p, o) == [k |-> "shed", s |-> 0, v |-> 0, p |-> p, o |-> o]

shed(W, ss) ==
    LET W1 == stream(W, parrot)
        o  == New(W1)
        W2 == hold(W1, ss, Ref(o))
    IN  listen(W2, ss, ShedObs(NewProp(W2), o))

\* ------------------------------------------------------------ lifecycle
EmptiedEdgesOnly(st) == [st EXCEPT !.next = <<>>, !.lazyNext = <<>>]

\* A stream object with its four sets empty.
Emptied(st) ==
    [st EXCEPT !.next = <<>>, !.lazyNext = <<>>, !.observers = <<>>, !.updates = <<>>]

\* clear(s): s.next.forEach(clear), then s's own four sets.
RECURSIVE clear(_, _)
RECURSIVE clearEach(_, _)
clearEach(S, q) == IF q = <<>> THEN S ELSE clearEach(clear(S, Head(q)), Tail(q))

clearAndUnlink(S, s) ==
    [x \in DOMAIN S |->
        IF x = s THEN Emptied(S[x])
        ELSE [S[x] EXCEPT !.next = SetDelete(@, s), !.lazyNext = SetDelete(@, s)]]

clear(S, s) ==
    LET S1 == clearEach(S, S[s].next)
    IN  [S1 EXCEPT ![s] = Emptied(@)]

\* The value the accessor countRefs(s, deep) returns when it is called with
\* the graph S.
RECURSIVE countRefs(_, _, _)
RECURSIVE countEach(_, _, _)
countEach(S, q, acc) ==
    IF q = <<>> THEN acc ELSE countEach(S, Tail(q), acc + countRefs(S, Head(q), TRUE))

countObservers(S, s, deep) == Len(S[s].observers)

countRefs(S, s, deep) ==
    IF deep
    THEN countEach(S, S[s].next \o S[s].lazyNext, Len(S[s].observers) + Len(S[s].updates))
    ELSE Len(S[s].observers) + Len(S[s].updates)

\* ------------------------------------------------------------ traversal
\* A FlowingState. Its thunks are kept as data: an observer thunk is the
\* closure with the value bound to it (and, for the properties, the stream n
\* it was subscribed to), an update thunk the cell with the value.
\* calls is bookkeeping for the properties: the functor invocations made while
\* the state was computed, in order.
NoState == [waiting |-> <<>>, observers |-> <<>>, updates |-> <<>>, calls |-> <<>>]

FunctorCall(s, in, r) == [s |-> s, in |-> in, ok |-> r.ok, out |-> r.v]

streamToFlowingState(S, v, s) ==
    [waiting   |-> [i \in DOMAIN S[s].lazyNext |-> <<S[s].lazyNext[i], v>>],
     observers |-> [i \in DOMAIN S[s].observers |-> [f |-> S[s].observers[i], v |-> v, n |-> s]],
     updates   |-> [i \in DOMAIN S[s].updates |-> [p |-> S[s].updates[i], v |-> v]],
     calls     |-> <<>>]

concatNewestFirst(a, b) ==
    [waiting   |-> a.waiting \o b.waiting,
     observers |-> b.observers \o a.observers,
     updates   |-> b.updates \o a.updates,
     calls     |-> a.calls \o b.calls]

concatFlowingState(a, b) ==
    [waiting   |-> a.waiting \o b.waiting,
     observers |-> a.observers \o b.observers,
     updates   |-> a.updates \o b.updates,
     calls     |-> a.calls \o b.calls]

\* Array.prototype.reduce(concatFlowingState, init)
RECURSIVE ConcatAll(_, _)
ConcatAll(init, q) ==
    IF q = <<>> THEN init ELSE ConcatAll(concatFlowingState(init, Head(q)), Tail(q))

acceptsAll(S, c, v) == TRUE

\* The test flow applies to a child before it descends into it.
accepts(S, c, v) == S[c].filter = NoFilter \/ Test(S[c].filter, v)

filterNeverThrows(S, s, v) == FALSE

\* The filter over s.next runs inside flow's try block: the predicate of a
\* child of s throws on the value v that s emitted.
filterThrows(S, s, v) ==
    \E i \in DOMAIN S[s].next :
        S[S[s].next[i]].filter # NoFilter /\ TestThrows(S[S[s].next[i]].filter, v)

\* Either throw lands in the catch block, which returns the empty state.
RECURSIVE flow(_, _, _, _)
flow(S, P, in, s) ==
    LET r == callFunctor(P, S[s].functor, in)
    IN  IF ~r.ok \/ filterThrows(S, s, r.v)
        THEN [NoState EXCEPT !.calls = <<FunctorCall(s, in, r)>>]
        ELSE LET kids == SelectSeq(S[s].next, LAMBDA c : accepts(S, c, r.v))
                 own  == [streamToFlowingState(S, r.v, s)
                             EXCEPT !.calls = <<FunctorCall(s, in, r)>>]
             IN  ConcatAll(own, [i \in DOMAIN kids |-> flow(S, P, One(r.v), kids[i])])

\* m.set(s, m.has(s) ? [...m.get(s), v] : [v]) on a Map kept as its entries
\* in insertion order.
mapSet(m, k, v) ==
    IF \E i \in DOMAIN m : m[i][1] = k
    THEN [i \in DOMAIN m |-> IF m[i][1] = k THEN <<k, Append(m[i][2], v)>> ELSE m[i]]
    ELSE Append(m, <<k, <<v>>>>)

\* r.waiting.forEach(...): the arrived values of each merge stream, listed.
RECURSIVE groupWaiting(_, _)
groupWaiting(m, w) ==
    IF w = <<>> THEN m ELSE groupWaiting(mapSet(m, Head(w)[1], Head(w)[2]), Tail(w))

RECURSIVE flowLazy(_, _, _, _)
flowLazy(S, P, in, s) ==
    LET r == flow(S, P, in, s)
    IN  IF r.waiting = <<>>
        THEN r
        ELSE LET m == groupWaiting(<<>>, r.waiting)
             IN  ConcatAll([r EXCEPT !.waiting = <<>>],
                           [i \in DOMAIN m |-> flowLazy(S, P, Arr(m[i][2]), m[i][1])])

\* ------------------------------------------------------------ the program
World == [streams |-> streams, props |-> props, funcs |-> funcs]

Install(W) ==
    /\ streams' = W.streams
    /\ props' = W.props
    /\ funcs' = W.funcs

\* The graphs the runs start from, each built by the constructors above.
PipeWorld ==
    LET W1 == stream(Empty, parrot)           \* 1: s
        W2 == pipe(W1, 1, MapFn("dbl"))       \* 2: t
        W3 == hold(W2, 1, 0)
        W4 == listen(W3, 1, LogObs)
    IN  listen(W4, 2, LogObs)

FilterWorld ==
    LET W1 == stream(Empty, parrot)           \* 1: s
        W2 == filter(W1, 1, "odd")            \* 2: t
        W3 == pipe(W2, 2, MapFn("dbl"))       \* 3: child of t
        W4 == pipe(W3, 1, MapFn("dbl"))       \* 4: sibling of t
        W5 == hold(W4, 2, 0)
        W6 == listen(W5, 2, LogObs)
        W7 == listen(W6, 3, LogObs)
    IN  listen(W7, 4, LogObs)

MergeWorld ==
    LET W1 == stream(Empty, parrot)           \* 1: s
        W2 == pipe(W1, 1, MapFn("dbl"))       \* 2: a
        W3 == filter(W2, 1, "odd")            \* 3: b
        W4 == merge(W3, <<2, 3>>, "mix")      \* 4: m
        W5 == hold(W4, 4, 0)
    IN  listen(W5, 4, LogObs)

NestedMergeWorld ==
    LET W1 == stream(Empty, parrot)           \* 1: s
        W2 == pipe(W1, 1, MapFn("dbl"))       \* 2: a
        W3 == merge(W2, <<1, 2>>, "mix")      \* 3: m1, fed by s and a
        W4 == merge(W3, <<2, 3>>, "mix")      \* 4: m2, fed by a and m1
        W5 == listen(W4, 3, LogObs)
    IN  listen(W5, 4, LogObs)

AccumWorld ==
    LET W1 == stream(Empty, parrot)           \* 1: s
        W2 == accum(W1, 1, "mix", 0)          \* 2: the piped stream, cell 1
        W3 == listen(W2, 1, LogObs)
    IN  listen(W3, 2, LogObs)

ShedWorld ==
    LET W1 == stream(Empty, parrot)           \* 1: ss
        W2 == shed(W1, 1)                     \* 2: o, cell 1
        W3 == stream(W2, parrot)              \* 3: i1
        W4 == stream(W3, parrot)              \* 4: i2
    IN  listen(W4, 2, LogObs)

Worlds == {PipeWorld, FilterWorld, MergeWorld, NestedMergeWorld, AccumWorld, ShedWorld}

Init ==
    /\ \E W \in Worlds :
          /\ streams = W.streams
          /\ props = W.props
          /\ funcs = W.funcs
    /\ observerPhase = FALSE
    /\ stack = <<>>
    /\ observed = <<>>
    /\ history = <<>>
    /\ caught = 0
    /\ built = <<>>
    /\ timers = <<>>

\* --- typing: what TypeScript lets a caller inject
\* The streams reachable from s by next and lazyNext edges, s included.
RECURSIVE ReachFrom(_, _, _)
ReachFrom(S, seen, front) ==
    IF front = {} THEN seen
    ELSE LET nxt == UNION {SeqToSet(S[n].next) \cup SeqToSet(S[n].lazyNext) : n \in front}
         IN  ReachFrom(S, seen \cup front, nxt \ (seen \cup front))

Reach(S, s) == ReachFrom(S, {}, {s})

\* A Stream<Stream<A>>: a stream shed was applied to.
CarriesStreams(s) == \E i \in DOMAIN streams[s].observers : funcs[streams[s].observers[i]].k = "shed"

ShedOutputs == {funcs[f].o : f \in {g \in DOMAIN funcs : funcs[g].k = "shed"}}

\* The inner streams a caller hands to a stream of streams: streams of plain
\* values from which no switch output leads back to them.
Inner == {n \in DOMAIN streams :
            /\ ~CarriesStreams(n)
            /\ \A o \in ShedOutputs : n \notin Reach(streams, o)}

Inputs(s) == IF CarriesStreams(s) THEN {Ref(n) : n \in Inner} ELSE 1..MaxVal

\* The streams top-level code holds and can inject one value into: not the
\* stream accum pipes (accum returns the Prop only), nor a merge stream (its
\* input is an array).
Targets == {s \in DOMAIN streams : streams[s].functor.k \in {"parrot", "map"}}

\* --- drip
Idle == stack = <<>>

Top == stack[Len(stack)]

SetTop(fr) == [stack EXCEPT ![Len(stack)] = fr]

Frame(s, v, S, P) ==
    [s |-> s, v |-> v, state |-> flowLazy(S, P, One(v), s),
     i |-> 1, j |-> 1, phase |-> "observers", pre |-> P, graph |-> S]

dripNeverThrows == FALSE

\* if (drip.observerPhase) throw ...
dripThrows == observerPhase

\* What a finished call leaves in history: its arguments, how it ended, the
\* FlowingState it returned, and for the properties the state its pure phase
\* computed and the cells and the graph as they were when it was called.
Returned(fr, ret) ==
    [s |-> fr.s, v |-> fr.v, ret |-> ret, pre |-> fr.pre, graph |-> fr.graph,
     flowed |-> fr.state,
     state |-> IF ret = "ok" THEN [fr.state EXCEPT !.calls = <<>>] ELSE NoState]

\* Leaving a drip call: the frame goes, and a top-level call is recorded.
Leave(ret) ==
    /\ stack' = SubSeq(stack, 1, Len(stack) - 1)
    /\ history' = IF Len(stack) = 1 THEN Append(history, Returned(Top, ret)) ELSE history

\* A drip call made outside any observer: the guard, the pure phase, and the
\* observer phase entered.
Begin(max, s, v) ==
    /\ Idle
    /\ Len(history) < max
    /\ IF dripThrows
       THEN /\ history' = Append(history, [s |-> s, v |-> v, ret |-> "threw", pre |-> props,
                                           graph |-> streams,
                                           flowed |-> NoState, state |-> NoState])
            /\ UNCHANGED <<stack, observerPhase>>
       ELSE /\ stack' = <<Frame(s, v, streams, props)>>
            /\ observerPhase' = TRUE
            /\ UNCHANGED history
    /\ UNCHANGED <<streams, props, funcs, observed, caught, built>>

\* drip(s)(v) called by top-level code.
Drip(max, s, v) == Begin(max, s, v) /\ UNCHANGED timers

InObservers == ~Idle /\ Top.phase = "observers" /\ Top.i <= Len(Top.state.observers)

Thunk == Top.state.observers[Top.i]

AdvancedLive ==
    [Top EXCEPT !.i = @ + 1, !.state = flowLazy(streams, Top.pre, One(Top.v), Top.s)]

\* forEach moves on to the next thunk of the array.
Advanced == [Top EXCEPT !.i = @ + 1]

AbortThenUpdates ==
    /\ observerPhase' = FALSE
    /\ stack' = SetTop([Top EXCEPT !.phase = "updates"])
    /\ UNCHANGED history

AbortKeepsFlag ==
    /\ UNCHANGED observerPhase
    /\ Leave("aborted")

\* catch (error) { drip.observerPhase = false; return empty }
Abort ==
    /\ observerPhase' = FALSE
    /\ Leave("aborted")

\* An observer that records the value and what every held property reads.
ObserveLog ==
    /\ InObservers
    /\ funcs[Thunk.f].k = "log"
    /\ observed' = Append(observed, [d |-> Len(history) + 1, f |-> Thunk.f, n |-> Thunk.n,
                                     v |-> Thunk.v, seen |-> props])
    /\ stack' = SetTop(Advanced)
    /\ UNCHANGED <<streams, props, funcs, observerPhase, history, caught, built, timers>>

\* An observer that calls drip(t)(w), bare or inside try/catch.
ObserveRedrip ==
    /\ InObservers
    /\ funcs[Thunk.f].k \in {"redrip", "redripCatch"}
    /\ IF dripThrows
       THEN IF funcs[Thunk.f].k = "redripCatch"
            THEN /\ caught' = caught + 1
                 /\ stack' = SetTop(Advanced)
                 /\ UNCHANGED <<observerPhase, history>>
            ELSE /\ Abort
                 /\ UNCHANGED caught
       ELSE /\ stack' = Append(SetTop(Advanced),
                               Frame(funcs[Thunk.f].s, funcs[Thunk.f].v, streams, props))
            /\ observerPhase' = TRUE
            /\ UNCHANGED <<history, caught>>
    /\ UNCHANGED <<streams, props, funcs, observed, built, timers>>

ObserveShedKeepsOld ==
    /\ InObservers
    /\ funcs[Thunk.f].k = "shed"
    /\ streams' = [streams EXCEPT ![Deref(Thunk.v)].next = SetAdd(@, funcs[Thunk.f].o)]
    /\ stack' = SetTop(Advanced)
    /\ UNCHANGED <<props, funcs, observerPhase, observed, history, caught, built, timers>>

\* The observer shed subscribes: p().next.delete(o); s.next.add(o).
ObserveShed ==
    /\ InObservers
    /\ funcs[Thunk.f].k = "shed"
    /\ LET o   == funcs[Thunk.f].o
           old == Deref(props[funcs[Thunk.f].p])
           new == Deref(Thunk.v)
           S1  == [streams EXCEPT ![old].next = SetDelete(@, o)]
       IN  streams' = [S1 EXCEPT ![new].next = SetAdd(@, o)]
    /\ stack' = SetTop(Advanced)
    /\ UNCHANGED <<props, funcs, observerPhase, observed, history, caught, built, timers>>

\* state.observers.forEach is over: drip.observerPhase = false.
ObserversDone ==
    /\ ~Idle
    /\ Top.phase = "observers"
    /\ Top.i > Len(Top.state.observers)
    /\ observerPhase' = FALSE
    /\ stack' = SetTop([Top EXCEPT !.phase = "updates"])
    /\ UNCHANGED <<streams, props, funcs, observed, history, caught, built, timers>>

holdSetLost(P, p, v) == P

\* The setter hold added: (_v) => v = _v.
holdSet(P, p, v) == [P EXCEPT ![p] = v]

UpdatePhaseAnyTime == TRUE

\* state.updates.forEach comes after the observers and the reset of the flag.
UpdatePhase == Top.phase = "updates"

Update ==
    /\ ~Idle
    /\ UpdatePhase
    /\ Top.j <= Len(Top.state.updates)
    /\ props' = holdSet(props, Top.state.updates[Top.j].p, Top.state.updates[Top.j].v)
    /\ stack' = SetTop([Top EXCEPT !.j = @ + 1])
    /\ UNCHANGED <<streams, funcs, observerPhase, observed, history, caught, built, timers>>

Return ==
    /\ ~Idle
    /\ Top.phase = "updates"
    /\ Top.j > Len(Top.state.updates)
    /\ Leave("ok")
    /\ UNCHANGED <<streams, props, funcs, observerPhase, observed, caught, built, timers>>

\* --- constructor calls from top-level code, between drip calls
CanBuild(max) == Idle /\ Len(built) < max

\* What a call leaves in built: the call, the number of drip calls made before
\* it, and the graph and the cells before and the graph after it.
Called(op, s, W) ==
    [op |-> op, s |-> s, at |-> Len(history),
     before |-> streams, pre |-> props, after |-> W.streams]

Rebuilt(op, s, W) ==
    /\ Install(W)
    /\ built' = Append(built, Called(op, s, W))
    /\ UNCHANGED <<observerPhase, stack, observed, history, caught, timers>>

\* The observers top-level code subscribes: one that records, and ones that
\* call drip(t)(1) for a stream t of plain values.
Closures ==
    {LogObs} \cup {RedripObs(t, 1) : t \in {n \in Targets : ~CarriesStreams(n)}}
             \cup {RedripCatchObs(t, 1) : t \in {n \in Targets : ~CarriesStreams(n)}}

Listen(max, s, f) == CanBuild(max) /\ Rebuilt("listen", s, listen(World, s, f))

\* The unsubscribe function of a listen call made by top-level code (shed
\* drops the one of its own observer).
Unsubscribe(max, s, f) ==
    /\ CanBuild(max)
    /\ Has(streams[s].observers, f)
    /\ funcs[f].k \in {"log", "redrip", "redripCatch"}
    /\ Rebuilt("unsubscribe", s, unsubscribe(World, s, f))

Hold(max, s) == CanBuild(max) /\ ~CarriesStreams(s) /\ Rebuilt("hold", s, hold(World, s, 0))

CanGrow(s) == CanBuild(MaxBuild) /\ Len(streams) < MaxStreams /\ ~CarriesStreams(s)

Pipe(s) == CanGrow(s) /\ Rebuilt("pipe", s, pipe(World, s, MapFn("dbl")))

Filter(s) == CanGrow(s) /\ Rebuilt("filter", s, filter(World, s, "odd"))

Merge(a, b) == CanGrow(a) /\ CanGrow(b) /\ Rebuilt("merge", a, merge(World, <<a, b>>, "mix"))

Accum(s) == CanGrow(s) /\ Rebuilt("accum", s, accum(World, s, "mix", 0))

Next ==
    \/ \E s \in Targets : \E v \in Inputs(s) : Drip(MaxDrips, s, v)
    \/ ObserveLog
    \/ ObserveRedrip
    \/ ObserveShed
    \/ ObserversDone
    \/ Update
    \/ Return
    \/ \E s \in DOMAIN streams : \E f \in Closures : Listen(MaxBuild, s, f)
    \/ \E s \in DOMAIN streams : \E f \in DOMAIN funcs : Unsubscribe(MaxBuild, s, f)
    \/ \E s \in DOMAIN streams : Hold(MaxBuild, s)
    \/ \E s \in DOMAIN streams : Pipe(s)
    \/ \E s \in DOMAIN streams : Filter(s)
    \/ \E a \in DOMAIN streams : \E b \in DOMAIN streams : Merge(a, b)
    \/ \E s \in DOMAIN streams : Accum(s)

Spec == Init /\ [][Next]_vars

\* --- the switch alone, over longer runs
\* o = shed(ss) with two inner streams, bare and with further observers on ss
\* and on an inner stream.
ShedWorlds ==
    {ShedWorld,
     listen(ShedWorld, 1, RedripObs(3, 1)),
     listen(listen(ShedWorld, 3, LogObs), 4, RedripCatchObs(3, 1))}

InitShed ==
    /\ \E W \in ShedWorlds :
          /\ streams = W.streams
          /\ props = W.props
          /\ funcs = W.funcs
    /\ observerPhase = FALSE
    /\ stack = <<>>
    /\ observed = <<>>
    /\ history = <<>>
    /\ caught = 0
    /\ built = <<>>
    /\ timers = <<>>

NextShed ==
    \/ \E s \in Targets : \E v \in Inputs(s) : Drip(MaxShedDrips, s, v)
    \/ ObserveLog
    \/ ObserveRedrip
    \/ ObserveShed
    \/ ObserversDone
    \/ Update
    \/ Return

SpecShed == InitShed /\ [][NextShed]_vars

\* --- teardown and reference counts
\* A graph with fan-in below s, a functor that throws on the value 2, and a
\* stream nothing is attached to.
ClearWorld ==
    LET W1  == stream(Empty, parrot)          \* 1: s
        W2  == pipe(W1, 1, MapFn("chk"))      \* 2: a
        W3  == pipe(W2, 1, MapFn("dbl"))      \* 3: b
        W4  == merge(W3, <<2, 3>>, "mix")     \* 4: m, fed by a and b
        W5  == pipe(W4, 2, MapFn("dbl"))      \* 5: c, below a
        W6  == stream(W5, parrot)             \* 6: fresh
        W7  == hold(W6, 1, 0)                 \* cell 1 on s
        W8  == hold(W7, 4, 0)                 \* cell 2 on m
        W9  == hold(W8, 5, 0)                 \* cell 3 on c
        W10 == listen(W9, 1, LogObs)
        W11 == listen(W10, 2, LogObs)
        W12 == listen(W11, 3, LogObs)
        W13 == listen(W12, 4, LogObs)
    IN  listen(W13, 5, LogObs)

InitClear ==
    /\ streams = ClearWorld.streams
    /\ props = ClearWorld.props
    /\ funcs = ClearWorld.funcs
    /\ observerPhase = FALSE
    /\ stack = <<>>
    /\ observed = <<>>
    /\ history = <<>>
    /\ caught = 0
    /\ built = <<>>
    /\ timers = <<>>

\* clear(n) called by top-level code.
Clear(max, n) ==
    /\ CanBuild(max)
    /\ Rebuilt("clear", n, [World EXCEPT !.streams = clear(streams, n)])

NextClear ==
    \/ \E s \in Targets : \E v \in Inputs(s) : Drip(MaxDrips, s, v)
    \/ ObserveLog
    \/ ObserversDone
    \/ Update
    \/ Return
    \/ \E n \in DOMAIN streams : Clear(MaxCalls, n)
    \/ \E s \in DOMAIN streams : Listen(MaxCalls, s, LogObs)
    \/ \E s \in DOMAIN streams : \E f \in DOMAIN funcs : Unsubscribe(MaxCalls, s, f)
    \/ \E s \in DOMAIN streams : Hold(MaxCalls, s)

SpecClear == InitClear /\ [][NextClear]_vars

\* --- the order of the effects, and a filter predicate that throws
\* A tree below s with a filtered child whose predicate throws on the value 4,
\* a merge stream fed by two branches, and a stream piped from the merge.
OrderWorld ==
    LET W1  == stream(Empty, parrot)          \* 1: s
        W2  == pipe(W1, 1, MapFn("dbl"))      \* 2: a
        W3  == filter(W2, 2, "sml")           \* 3: g, below a
        W4  == pipe(W3, 2, MapFn("dbl"))      \* 4: c, below a
        W5  == pipe(W4, 1, MapFn("dbl"))      \* 5: b
        W6  == merge(W5, <<2, 5>>, "mix")     \* 6: m, fed by a and b
        W7  == pipe(W6, 6, MapFn("dbl"))      \* 7: e, below m
        W8  == hold(W7, 1, 0)                 \* cell 1 on s
        W9  == hold(W8, 2, 0)                 \* cell 2 on a
        W10 == hold(W9, 4, 0)                 \* cell 3 on c
        W11 == hold(W10, 5, 0)                \* cell 4 on b
        W12 == hold(W11, 7, 0)                \* cell 5 on e
        W13 == listen(W12, 7, LogObs)
        W14 == listen(W13, 6, LogObs)
        W15 == listen(W14, 5, LogObs)
        W16 == listen(W15, 4, LogObs)
        W17 == listen(W16, 3, LogObs)
        W18 == listen(W17, 2, LogObs)
        W19 == listen(W18, 2, LogObs)
    IN  listen(W19, 1, LogObs)

InitOrder ==
    /\ streams = OrderWorld.streams
    /\ props = OrderWorld.props
    /\ funcs = OrderWorld.funcs
    /\ observerPhase = FALSE
    /\ stack = <<>>
    /\ observed = <<>>
    /\ history = <<>>
    /\ caught = 0
    /\ built = <<>>
    /\ timers = <<>>

\* filter(s)(f) called by top-level code with the predicate that throws.
FilterSml(max, s) == CanBuild(max) /\ Rebuilt("filter", s, filter(World, s, "sml"))

NextOrder ==
    \/ \E s \in Targets : \E v \in Inputs(s) : Drip(MaxDrips, s, v)
    \/ ObserveLog
    \/ ObserversDone
    \/ Update
    \/ Return
    \/ \E s \in DOMAIN streams : Listen(MaxBuild, s, LogObs)
    \/ \E s \in DOMAIN streams : \E f \in DOMAIN funcs : Unsubscribe(MaxBuild, s, f)
    \/ \E s \in DOMAIN streams : Hold(MaxBuild, s)
    \/ \E s \in DOMAIN streams : FilterSml(MaxBuild, s)

SpecOrder == InitOrder /\ [][NextOrder]_vars

\* --- the copy of the engine in blooky-dom.ts
\* There s.updates holds the Props themselves and the setter of each is kept
\* in the weak table PROP_UPDATER, keyed by the Prop. hold makes the entry and
\* only clear deletes one, so without clear the table holds every Prop that
\* is in a stream's updates.
PROP_UPDATER(S) == UNION {SeqToSet(S[n].updates) : n \in DOMAIN S}

\* What calling an update thunk of that copy does to the cells. The thunk is
\*   PROP_UPDATER.has(p) ? () => (v) => PROP_UPDATER.get(p)(v)
\*                       : () => (_) => { s.updates.delete(p); clear(p) }
\* and drip calls it with f(): either way the call returns a function, which
\* drip drops, and neither the setter nor the cleanup runs.
domUpdateThunk(S, P, p, v) == IF p \in PROP_UPDATER(S) THEN P ELSE P

DomWorld ==
    LET W1 == stream(Empty, parrot)           \* 1: s
        W2 == pipe(W1, 1, MapFn("dbl"))       \* 2: t
        W3 == hold(W2, 1, 0)                  \* cell 1 on s
        W4 == hold(W3, 2, 0)                  \* cell 2 on t
        W5 == listen(W4, 1, LogObs)
    IN  listen(W5, 2, LogObs)

InitDom ==
    /\ streams = DomWorld.streams
    /\ props = DomWorld.props
    /\ funcs = DomWorld.funcs
    /\ observerPhase = FALSE
    /\ stack = <<>>
    /\ observed = <<>>
    /\ history = <<>>
    /\ caught = 0
    /\ built = <<>>
    /\ timers = <<>>

\* state.updates.forEach(f => f()) in that copy.
UpdateDom ==
    /\ ~Idle
    /\ UpdatePhase
    /\ Top.j <= Len(Top.state.updates)
    /\ props' = domUpdateThunk(Top.graph, props, Top.state.updates[Top.j].p, Top.state.updates[Top.j].v)
    /\ stack' = SetTop([Top EXCEPT !.j = @ + 1])
    /\ UNCHANGED <<streams, funcs, observerPhase, observed, history, caught, built, timers>>

NextDom ==
    \/ \E s \in Targets : \E v \in Inputs(s) : Drip(MaxDrips, s, v)
    \/ ObserveLog
    \/ ObserversDone
    \/ UpdateDom
    \/ Return
    \/ \E s \in DOMAIN streams : Listen(MaxBuild, s, LogObs)
    \/ \E s \in DOMAIN streams : Hold(MaxBuild, s)

SpecDom == InitDom /\ [][NextDom]_vars

\* --- observers that throw, subscribe, unsubscribe and move edges
\* An observer that throws an error of its own.
ObserveFail ==
    /\ InObservers
    /\ funcs[Thunk.f].k = "fail"
    /\ Abort
    /\ UNCHANGED <<streams, props, funcs, observed, caught, built, timers>>

ObserveUnsub ==
    /\ InObservers
    /\ funcs[Thunk.f].k = "unsub"
    /\ streams' = unsubscribe(World, funcs[Thunk.f].s, funcs[Thunk.f].o).streams
    /\ stack' = SetTop(Advanced)
    /\ UNCHANGED <<props, funcs, observerPhase, observed, history, caught, built, timers>>

ObserveSub ==
    /\ InObservers
    /\ funcs[Thunk.f].k = "sub"
    /\ Install(listen(World, funcs[Thunk.f].s, LogObs))
    /\ stack' = SetTop(Advanced)
    /\ UNCHANGED <<observerPhase, observed, history, caught, built, timers>>

\* (v) => { if (e.isConnected) { update_attr(e)([n, v]); f([e, n]) } unlisten() }
ObserveBind ==
    /\ InObservers
    /\ funcs[Thunk.f].k = "bind"
    /\ LET c  == funcs[Thunk.f]
           W1 == IF c.v = 1 THEN listen(World, c.s, c) ELSE World
       IN  /\ Install(unsubscribe(W1, c.s, Thunk.f))
           /\ observed' = IF c.v = 1
                           THEN Append(observed, [d |-> Len(history) + 1, f |-> Thunk.f,
                                                  n |-> Thunk.n, v |-> Thunk.v, seen |-> props])
                           ELSE observed
    /\ stack' = SetTop(Advanced)
    /\ UNCHANGED <<observerPhase, history, caught, built, timers>>

\* A switch whose stream of streams is piped from r and picks r itself or i,
\* a stream t piped from r, an observer of r that unsubscribes the observer of
\* t, one that subscribes a new observer to t, and attribute bindings on i.
PhaseWorld ==
    LET W1  == stream(Empty, parrot)          \* 1: r
        W2  == pipe(W1, 1, MapFn("sel"))      \* 2: ss
        W3  == shed(W2, 2)                    \* 3: o, cell 1, closure 1
        W4  == stream(W3, parrot)             \* 4: i
        W5  == pipe(W4, 1, MapFn("dbl"))      \* 5: t
        W6  == listen(W5, 3, LogObs)          \* closure 2, on o
        W7  == listen(W6, 5, LogObs)          \* closure 3, on t
        W8  == listen(W7, 1, UnsubObs(5, 3))  \* closure 4, on r
        W9  == listen(W8, 1, SubObs(5))       \* closure 5, on r
        W10 == listen(W9, 4, BindObs(4, 1))   \* closure 6, on i
        W11 == listen(W10, 4, BindObs(4, 0))  \* closure 7, on i
        W12 == hold(W11, 5, 0)                \* cell 2 on t
    IN  hold(W12, 3, 0)                       \* cell 3 on o

InitPhase ==
    /\ streams = PhaseWorld.streams
    /\ props = PhaseWorld.props
    /\ funcs = PhaseWorld.funcs
    /\ observerPhase = FALSE
    /\ stack = <<>>
    /\ observed = <<>>
    /\ history = <<>>
    /\ caught = 0
    /\ built = <<>>
    /\ timers = <<>>

\* The observers top-level code adds: one that throws, and one that calls drip.
Throwers == {FailObs, RedripObs(1, 1)}

NextPhase ==
    \/ \E s \in Targets : \E v \in 1..MaxVal : Drip(MaxDrips, s, v)
    \/ ObserveLog
    \/ ObserveRedrip
    \/ ObserveFail
    \/ ObserveUnsub
    \/ ObserveSub
    \/ ObserveBind
    \/ ObserveShed
    \/ ObserversDone
    \/ Update
    \/ Return
    \/ \E s \in DOMAIN streams : \E f \in Throwers : Listen(MaxBuild, s, f)

SpecPhase == InitPhase /\ [][NextPhase]_vars

\* --- moments: the producers fed by the host's timers
MomentsEmpty == [streams |-> <<>>, props |-> <<0>>, funcs |-> <<>>, timers |-> <<>>]

\* () => countRefs(s)() < 2 && clearInterval(pid)
IntervalObs(s, pid) == [k |-> "interval", s |-> s, pid |-> pid]

\* () => p().count < limit && countRefs(s)() > ref_min && requestAnimationFrame(drip(s)),
\* with the variable ref_min kept in cell r.
FrameObs(s, p, limit, r) == [k |-> "frame", s |-> s, p |-> p, limit |-> limit, r |-> r]

\* setInterval(drip(s), ms, arg) and requestAnimationFrame(drip(s)): a timer
\* that fires until it is cleared, and a callback that fires once.
setInterval(W, s, arg) ==
    [W EXCEPT !.timers = Append(@, [kind |-> "interval", s |-> s, arg |-> arg, live |-> TRUE])]

AFrame(s) == [kind |-> "frame", s |-> s, arg |-> 0, live |-> TRUE]

requestAnimationFrame(W, s) == [W EXCEPT !.timers = Append(@, AFrame(s))]

interval(W) ==
    LET W1 == stream(W, ElapsedFn)
        s  == New(W1)
        W2 == setInterval(W1, s, W1.props[NowCell])
    IN  listen(W2, s, IntervalObs(s, Len(W2.timers)))

framecount(W, limit) ==
    LET p  == Len(W.props) + 1
        r  == Len(W.props) + 2
        W1 == stream(W, FrameFn(p))
        s  == New(W1)
        W2 == hold(W1, s, 0)
        W3 == listen(W2, s, FrameObs(s, p, limit, r))
        W4 == requestAnimationFrame(W3, s)
    IN  [W4 EXCEPT !.props = Append(@, countRefs(W4.streams, s, FALSE))]

\* An interval stream listened to directly and through a piped stream, one
\* listened to through a piped stream only, and framecount streams with a
\* listener.
IntervalWorld ==
    LET W1 == interval(MomentsEmpty)          \* 1: s
        W2 == pipe(W1, 1, MapFn("dbl"))       \* 2: t
        W3 == listen(W2, 1, LogObs)
    IN  listen(W3, 2, LogObs)

DerivedWorld ==
    LET W1 == interval(MomentsEmpty)          \* 1: s
        W2 == pipe(W1, 1, MapFn("dbl"))       \* 2: t
    IN  listen(W2, 2, LogObs)

FrameWorld(limit) == listen(framecount(MomentsEmpty, limit), 1, LogObs)

MomentsWorlds == {IntervalWorld, DerivedWorld} \cup {FrameWorld(l) : l \in 1..MaxLimit}

InitMoments ==
    /\ \E W \in MomentsWorlds :
          /\ streams = W.streams
          /\ props = W.props
          /\ funcs = W.funcs
          /\ timers = W.timers
    /\ observerPhase = FALSE
    /\ stack = <<>>
    /\ observed = <<>>
    /\ history = <<>>
    /\ caught = 0
    /\ built = <<>>

\* Time passes between two callbacks.
Pass ==
    /\ Idle
    /\ props[NowCell] < MaxClock
    /\ props' = [props EXCEPT ![NowCell] = @ + 1]
    /\ UNCHANGED <<streams, funcs, observerPhase, stack, observed, history, caught, built, timers>>

\* The host fires an interval timer: drip(s)(arg).
Tick(t) ==
    /\ timers[t].kind = "interval"
    /\ timers[t].live
    /\ Begin(MaxTicks, timers[t].s, timers[t].arg)
    /\ UNCHANGED timers

\* The host runs a requested animation frame callback: drip(s)(timestamp).
AnimationFrame(t) ==
    /\ timers[t].kind = "frame"
    /\ timers[t].live
    /\ Begin(MaxTicks, timers[t].s, props[NowCell])
    /\ timers' = [timers EXCEPT ![t].live = FALSE]

\* The observer interval subscribes to its own stream.
ObserveInterval ==
    /\ InObservers
    /\ funcs[Thunk.f].k = "interval"
    /\ timers' = IF countRefs(streams, funcs[Thunk.f].s, FALSE) < 2
                 THEN [timers EXCEPT ![funcs[Thunk.f].pid].live = FALSE]
                 ELSE timers
    /\ stack' = SetTop(Advanced)
    /\ UNCHANGED <<streams, props, funcs, observerPhase, observed, history, caught, built>>

\* The observer framecount subscribes to its own stream.
ObserveFrame ==
    /\ InObservers
    /\ funcs[Thunk.f].k = "frame"
    /\ LET c == funcs[Thunk.f]
       IN  timers' = IF /\ props[c.p] < c.limit
                       /\ countRefs(streams, c.s, FALSE) > props[c.r]
                    THEN Append(timers, AFrame(c.s))
                    ELSE timers
    /\ stack' = SetTop(Advanced)
    /\ UNCHANGED <<streams, props, funcs, observerPhase, observed, history, caught, built>>

NextMoments ==
    \/ Pass
    \/ \E t \in DOMAIN timers : Tick(t)
    \/ \E t \in DOMAIN timers : AnimationFrame(t)
    \/ ObserveInterval
    \/ ObserveFrame
    \/ ObserveLog
    \/ ObserversDone
    \/ Update
    \/ Return
    \/ \E s \in DOMAIN streams : \E f \in DOMAIN funcs : Unsubscribe(MaxCalls, s, f)
    \/ \E n \in DOMAIN streams : Clear(MaxCalls, n)

SpecMoments == InitMoments /\ [][NextMoments]_vars

\* The host runs every callback that is due, and a drip call, which is
\* synchronous, runs to its end.
Run ==
    \/ \E t \in DOMAIN timers : Tick(t)
    \/ \E t \in DOMAIN timers : AnimationFrame(t)
    \/ ObserveInterval
    \/ ObserveFrame
    \/ ObserveLog
    \/ ObserversDone
    \/ Update
    \/ Return

SpecMomentsFair == SpecMoments /\ WF_vars(Run)

\* ------------------------------------------------------------ properties
\* The top-level drip call number d: the cells when it was called.
PreOf(d) == IF d <= Len(history) THEN history[d].pre ELSE stack[1].pre

Last == history[Len(history)]

Parents(S, n) == {q \in DOMAIN S : Has(S[q].next, n) \/ Has(S[q].lazyNext, n)}

\* A stream made by stream() that nothing feeds.
IdentityRoot(S, s) ==
    S[s].functor = parrot /\ S[s].filter = NoFilter /\ Parents(S, s) = {}

\* C1: within one drip call the observers run before the updates: while the
\* observers of a call run no held cell has changed since the call began, and
\* what an observer read of the held properties is what they held when the
\* call began.
C1_ObserversSeePreEvent ==
    /\ (~Idle /\ stack[1].phase = "observers") => props = stack[1].pre
    /\ \A k \in DOMAIN observed : observed[k].seen = PreOf(observed[k].d)

\* An observer of the running call has read a cell that the call has since changed.
C1_Witness ==
    /\ ~Idle
    /\ \E k \in DOMAIN observed :
          observed[k].d = Len(history) + 1 /\ observed[k].seen # props

HoldReadsInjected ==
    (Idle /\ history # <<>> /\ Last.ret = "ok" /\ IdentityRoot(Last.graph, Last.s)) =>
        \A c \in SeqToSet(Last.graph[Last.s].updates) : props[c] = Last.v

HoldKeptUntilInjection ==
    \A s \in DOMAIN streams : \A c \in SeqToSet(streams[s].updates) :
        (IdentityRoot(streams, s) /\ props'[c] # props[c]) => (~Idle /\ stack[1].s = s)

IsLog(th) == funcs[th.f].k = "log"

ThrowsAt(obs) == {i \in DOMAIN obs : funcs[obs[i].f].k = "redrip"}

\* The observer thunks actually invoked: all of them, or those up to the first
\* one that throws.
Ran(obs) ==
    IF ThrowsAt(obs) = {} THEN obs
    ELSE SubSeq(obs, 1, CHOOSE i \in ThrowsAt(obs) : \A j \in ThrowsAt(obs) : i <= j)

Catches(obs) == Len(SelectSeq(obs, LAMBDA th : funcs[th.f].k = "redripCatch"))

RECURSIVE CatchesUpTo(_)
CatchesUpTo(d) ==
    IF d = 0 THEN 0 ELSE CatchesUpTo(d - 1) + Catches(Ran(history[d].flowed.observers))

Entry(d, th) == [d |-> d, f |-> th.f, n |-> th.n, v |-> th.v]

ExpectedLog(d, obs) ==
    LET logs == SelectSeq(obs, IsLog)
    IN  [i \in DOMAIN logs |-> Entry(d, logs[i])]

ObservedAt(d) ==
    LET es == SelectSeq(observed, LAMBDA e : e.d = d)
    IN  [i \in DOMAIN es |-> Entry(d, es[i])]

RECURSIVE Applied(_, _)
Applied(P, ups) ==
    IF ups = <<>> THEN P ELSE Applied([P EXCEPT ![Head(ups).p] = Head(ups).v], Tail(ups))

\* The cells once call d has returned (no cell changes between calls).
After(d) ==
    IF d < Len(history) THEN history[d + 1].pre
    ELSE IF Idle THEN props ELSE stack[1].pre

RanNormally(d) ==
    /\ ObservedAt(d) = ExpectedLog(d, history[d].flowed.observers)
    /\ \A c \in DOMAIN history[d].pre :
          After(d)[c] = Applied(history[d].pre, history[d].flowed.updates)[c]

RanNothingMore(d) ==
    /\ ObservedAt(d) = ExpectedLog(d, Ran(history[d].flowed.observers))
    /\ \A c \in DOMAIN history[d].pre : After(d)[c] = history[d].pre[c]

\* C3: a drip call made from inside an observer throws and propagates nothing
\* (no second call is ever in progress, every guarded call was caught as an
\* error, an unguarded one aborts the outer call, and the log holds the outer
\* call's thunks only); no top-level call is rejected afterwards, and a call
\* whose observers make no such call runs all its observers and updates.
C3_ReentrantDripThrows ==
    /\ Len(stack) <= 1
    /\ caught = CatchesUpTo(Len(history))
                + (IF Idle THEN 0
                   ELSE Catches(SubSeq(stack[1].state.observers, 1, stack[1].i - 1)))
    /\ \A d \in DOMAIN history :
          /\ history[d].ret # "threw"
          /\ (history[d].ret = "aborted") <=> (ThrowsAt(history[d].flowed.observers) # {})
          /\ history[d].ret = "ok" => RanNormally(d)
          /\ history[d].ret = "aborted" => RanNothingMore(d)

\* An observer's reentrant call threw and aborted the first call; the second
\* call then ran observers and updates to the end.
C3_Witness ==
    /\ Idle /\ Len(history) = 2
    /\ history[1].ret = "aborted" /\ history[2].ret = "ok"
    /\ ObservedAt(2) # <<>>
    /\ \E c \in DOMAIN history[2].pre : props[c] # history[2].pre[c]

\* C4: the guard flag is true exactly while the observer thunks of a drip
\* call run; in particular it is false whenever no call is in progress,
\* however the last call ended.
C4_GuardFlag == observerPhase <=> (~Idle /\ Top.phase = "observers")

\* Both exits have been taken, the abort last, and the flag is down.
C4_Witness ==
    /\ Idle /\ ~observerPhase /\ Len(history) = 2
    /\ history[1].ret = "ok" /\ history[2].ret = "aborted"

\* --- the traversal of call d, read off its functor invocations
CallsOn(d, n) == SelectSeq(history[d].flowed.calls, LAMBDA c : c.s = n)

InputsOf(d, n) == [i \in DOMAIN CallsOn(d, n) |-> CallsOn(d, n)[i].in]

\* The values stream n emitted during call d, in order.
Emitted(d, n) ==
    LET ok == SelectSeq(CallsOn(d, n), LAMBDA c : c.ok)
    IN  [i \in DOMAIN ok |-> ok[i].out]

\* The values that reached merge stream m during call d, in arrival order.
Arrivals(d, m) ==
    LET ok == SelectSeq(history[d].flowed.calls,
                        LAMBDA c : c.ok /\ Has(history[d].graph[c.s].lazyNext, m))
    IN  [i \in DOMAIN ok |-> ok[i].out]

MergeStreams(S) == {m \in DOMAIN S : S[m].functor.k = "merge"}

\* The values call d bound to observer g of stream n, in order.
Delivered(d, n, g) ==
    LET th == SelectSeq(history[d].flowed.observers, LAMBDA x : x.n = n /\ x.f = g)
    IN  [i \in DOMAIN th |-> th[i].v]

\* C5 as claimed: in one drip every merge stream that is reached has its
\* functor invoked exactly once, with the array of all the values that
\* reached it, in arrival order.
C5_MergeFunctorOnce ==
    \A d \in DOMAIN history : \A m \in MergeStreams(history[d].graph) :
        IF Arrivals(d, m) = <<>>
        THEN InputsOf(d, m) = <<>>
        ELSE InputsOf(d, m) = <<Arr(Arrivals(d, m))>>

\* C6 as claimed: the observers of a merge stream that is reached get one
\* value per drip, the left fold with f of the values of the sources that
\* were reached, in arrival order (a single value unchanged).
C6_MergeDelivers ==
    \A d \in DOMAIN history : \A m \in MergeStreams(history[d].graph) :
        Arrivals(d, m) # <<>> =>
            \A g \in SeqToSet(history[d].graph[m].observers) :
                Delivered(d, m, g) = <<Reduce(history[d].graph[m].functor.f, Arrivals(d, m))>>

\* --- filter
WithoutEdge(S, s, t) == [S EXCEPT ![s].next = SetDelete(@, t)]

Filters(S) == {t \in DOMAIN S : S[t].filter # NoFilter}

Passing(d, s, t) ==
    SelectSeq(Emitted(d, s), LAMBDA v : Test(history[d].graph[t].filter, v))

Ones(q) == [i \in DOMAIN q |-> One(q[i])]

\* What call d bound to the setter of cell c.
Written(d, c) ==
    LET up == SelectSeq(history[d].flowed.updates, LAMBDA x : x.p = c)
    IN  [i \in DOMAIN up |-> up[i].v]

Outside(S, t, st) ==
    [observers |-> SelectSeq(st.observers, LAMBDA x : x.n \notin Reach(S, t)),
     calls     |-> SelectSeq(st.calls, LAMBDA c : c.s \notin Reach(S, t))]

FilterGates(d, s, t) ==
    LET S    == history[d].graph
        pass == Passing(d, s, t)
        bare == flowLazy(WithoutEdge(S, s, t), history[d].pre, One(history[d].v), history[d].s)
    IN  /\ InputsOf(d, t) = Ones(pass)
        /\ \A g \in SeqToSet(S[t].observers) : Delivered(d, t, g) = pass
        /\ \A c \in SeqToSet(S[t].updates) : Written(d, c) = pass
        /\ \A k \in SeqToSet(S[t].next) :
              Parents(S, k) = {t} =>
                  InputsOf(d, k) = Ones(SelectSeq(pass, LAMBDA v : accepts(S, k, v)))
        /\ \A m \in SeqToSet(S[t].lazyNext) :
              \A v \in SeqToSet(pass) : \E i \in DOMAIN CallsOn(d, m) : Has(CallsOn(d, m)[i].in.a, v)
        /\ pass = <<>> => history[d].flowed = bare
        /\ Outside(S, t, history[d].flowed) = Outside(S, t, bare)

\* C7: for t = filter(s)(pred), in every drip made into s or above it: t is
\* entered once for each value s emits that satisfies pred and for no other,
\* and hands exactly those values, unchanged, to its observers, update sinks,
\* children and merge streams; when no value passes the traversal computes
\* what it computes with t cut off from s, and in every case the streams not
\* below t are visited and bound as with t cut off.
C7_FilterGates ==
    \A d \in DOMAIN history : \A t \in Filters(history[d].graph) :
        \A s \in Parents(history[d].graph, t) :
            history[d].s \notin Reach(history[d].graph, t) => FilterGates(d, s, t)

\* One call in which the filter turned the value away while a sibling branch
\* bound an observer, and one in which it let the value through to an observer.
C7_Witness ==
    \E d \in DOMAIN history, e \in DOMAIN history :
        \E t \in Filters(history[d].graph) : \E s \in Parents(history[d].graph, t) :
            /\ t \in Filters(history[e].graph) /\ s \in Parents(history[e].graph, t)
            /\ Emitted(d, s) # <<>> /\ Passing(d, s, t) = <<>>
            /\ \E x \in SeqToSet(history[d].flowed.observers) : x.n \in SeqToSet(history[d].graph[s].next)
            /\ Passing(e, s, t) # <<>>
            /\ \E x \in SeqToSet(history[e].flowed.observers) : x.n = t

\* --- pipe
\* The values the logging observer g of stream n recorded during call d.
ObservedVals(d, n, g) ==
    LET es == SelectSeq(observed, LAMBDA e : e.d = d /\ e.n = n /\ e.f = g)
    IN  [i \in DOMAIN es |-> es[i].v]

Loggers(S, n) == {g \in SeqToSet(S[n].observers) : funcs[g].k = "log"}

Piped(S, s) ==
    {t \in SeqToSet(S[s].next) : S[t].functor.k = "map" /\ S[t].filter = NoFilter}

\* C8: a drip(s)(v) into an identity stream that returns normally has invoked
\* every observer of s exactly once, with v, and every observer of each
\* t = pipe(s)(f) exactly once, with f(v); and observers record the calls in
\* the order the calls were made.
C8_PipeDelivers ==
    /\ \A i \in DOMAIN observed : \A j \in DOMAIN observed :
          i < j => observed[i].d <= observed[j].d
    /\ \A d \in DOMAIN history :
          (history[d].ret = "ok" /\ IdentityRoot(history[d].graph, history[d].s)) =>
              /\ \A g \in Loggers(history[d].graph, history[d].s) :
                    ObservedVals(d, history[d].s, g) = <<history[d].v>>
              /\ \A t \in Piped(history[d].graph, history[d].s) :
                    \A g \in Loggers(history[d].graph, t) :
                        ObservedVals(d, t, g)
                            = <<Apply1(history[d].graph[t].functor.f, history[d].v)>>

\* Injections 1 and 2 into s with t = pipe(s)(n => n * 2): the observer of t
\* has recorded 2, then 4.
C8_Witness ==
    /\ Idle /\ Len(history) = 2
    /\ history[1].s = history[2].s /\ history[1].v = 1 /\ history[2].v = 2
    /\ \E t \in Piped(streams, history[1].s) : \E g \in Loggers(streams, t) :
          /\ streams[t].functor.f = "dbl"
          /\ ObservedVals(1, t, g) \o ObservedVals(2, t, g) = <<2, 4>>

\* --- accum
Accums(S) == {t \in DOMAIN S : S[t].functor.k = "accum"}

\* f(vd, ... f(v1, seed)) over the calls 1..d that were made into s and
\* returned normally.
RECURSIVE AccumFold(_, _, _, _)
AccumFold(d, s, f, seed) ==
    IF d = 0 THEN seed
    ELSE LET acc == AccumFold(d - 1, s, f, seed)
         IN  IF history[d].s = s /\ history[d].ret = "ok"
             THEN Apply2(f, history[d].v, acc) ELSE acc

\* C9: for p = accum(s)(f, seed) on an identity stream s, a drip(s)(v) that
\* returns normally applies the reducer exactly once, to v and the value p
\* had before the call, and p then reads the result; so after the i-th call p
\* reads the left fold of f over the injected values from the seed.
C9_AccumFolds ==
    \A d \in DOMAIN history : \A t \in Accums(history[d].graph) :
        \A s \in Parents(history[d].graph, t) :
            LET S == history[d].graph
                c == S[t].functor.p
                f == S[t].functor.f
            IN  IdentityRoot(S, s) =>
                  /\ (history[d].s = s /\ history[d].ret = "ok") =>
                        /\ InputsOf(d, t) = <<One(history[d].v)>>
                        /\ After(d)[c] = Apply2(f, history[d].v, history[d].pre[c])
                  /\ c \in DOMAIN history[1].pre =>
                        After(d)[c] = AccumFold(d, s, f, history[1].pre[c])

\* accum(s)((v, a) => 2 * v + a, 0) after the injections 1 and 2 reads
\* 2 * 2 + (2 * 1 + 0).
C9_Witness ==
    /\ Idle /\ Len(history) = 2
    /\ history[1].ret = "ok" /\ history[2].ret = "ok"
    /\ history[1].v = 1 /\ history[2].v = 2 /\ history[1].s = history[2].s
    /\ \E t \in Accums(streams) :
          /\ history[1].s \in Parents(streams, t)
          /\ streams[t].functor.p \in DOMAIN history[1].pre
          /\ history[1].pre[streams[t].functor.p] = 0
          /\ props[streams[t].functor.p] = 6

\* --- shed
Sheds == {g \in DOMAIN funcs : funcs[g].k = "shed"}

\* The stream of streams the switch g listens to.
OuterOf(g) == CHOOSE s \in DOMAIN streams : Has(streams[s].observers, g)

\* The calls into ss before call d.
SwitchesBefore(d, ss) == {e \in 1..(d - 1) : history[e].s = ss}

\* The inner stream ss emitted last before call d (0: none yet).
CurrentAt(d, ss) ==
    IF SwitchesBefore(d, ss) = {} THEN 0
    ELSE LET e == CHOOSE x \in SwitchesBefore(d, ss) : \A y \in SwitchesBefore(d, ss) : y <= x
         IN  Deref(history[e].v)

\* C10: for o = shed(ss), with the drips into ss so far having returned
\* normally: a drip into a stream other than ss and o that returns normally
\* hands the observers of o exactly the values that the inner stream ss
\* emitted last emits in that drip, and nothing before ss has emitted; so
\* after drip(ss)(i1) a drip into i1 reaches them, and after a later
\* drip(ss)(i2) a drip into i2 does and a drip into i1 no longer does.
C10_ShedSwitches ==
    \A g \in Sheds : \A d \in DOMAIN history :
        LET ss == OuterOf(g)
            o  == funcs[g].o
        IN  ( /\ history[d].ret = "ok"
              /\ history[d].s \notin {ss, o}
              /\ \A e \in SwitchesBefore(d, ss) : history[e].ret = "ok" ) =>
                \A l \in Loggers(history[d].graph, o) :
                    ObservedVals(d, o, l)
                        = IF CurrentAt(d, ss) = 0 THEN <<>>
                          ELSE Emitted(d, CurrentAt(d, ss))

\* ss emitted i1 and a drip into i1 reached the observer of o; ss then emitted
\* i2 and a drip into i1 did not reach it.
C10_Witness ==
    /\ Idle /\ Len(history) = 4
    /\ \A d \in 1..4 : history[d].ret = "ok"
    /\ \E g \in Sheds : \E l \in Loggers(streams, funcs[g].o) :
          /\ history[1].s = OuterOf(g) /\ history[3].s = OuterOf(g)
          /\ history[1].v # history[3].v
          /\ history[2].s = Deref(history[1].v) /\ history[4].s = Deref(history[1].v)
          /\ ObservedVals(2, funcs[g].o, l) = <<history[2].v>>
          /\ ObservedVals(4, funcs[g].o, l) = <<>>

\* The streams that list o among their children.
Feeders(S, o) == {n \in DOMAIN S : Has(S[n].next, o)}

\* The observer of switch g has already run in the drip in progress.
SwitchedNow(g) ==
    /\ ~Idle
    /\ stack[1].s = OuterOf(g)
    /\ \E i \in 1..(stack[1].i - 1) : stack[1].state.observers[i].f = g

\* The inner stream the stream of streams of switch g emitted last (0: none yet).
LatestEmitted(g) ==
    IF SwitchedNow(g) THEN Deref(stack[1].v)
    ELSE CurrentAt(Len(history) + 1, OuterOf(g))

\* C11 as claimed: for o = shed(ss), in every state reached by drips into ss
\* and into inner streams, whatever other observers are subscribed, at most
\* one stream lists o in its next set, and it is the inner stream ss emitted
\* last.
C11_ShedSingleFeed ==
    \A g \in Sheds : Feeders(streams, funcs[g].o) \subseteq {LatestEmitted(g)}

\* --- clear
Clears == {k \in DOMAIN built : built[k].op = "clear"}

\* Between call k and drip d top-level code attached something to stream n.
AttachedSince(k, d, n) ==
    \E j \in (k + 1)..Len(built) :
        /\ built[j].at < d
        /\ built[j].s = n
        /\ built[j].op \notin {"unsubscribe", "clear"}

\* The drips into the stream call k cleared that were made after the call,
\* while nothing new was attached to the stream.
DripsInto(k) ==
    {d \in DOMAIN history :
        /\ d > built[k].at
        /\ history[d].s = built[k].s
        /\ ~AttachedSince(k, d, built[k].s)}

NoThunks(st) == st.waiting = <<>> /\ st.observers = <<>> /\ st.updates = <<>>

\* C12: after clear(s) every drip(s)(v) (made before anything is attached to
\* s again) computes and returns a FlowingState with empty waiting, observers
\* and updates lists, no observer records anything in it and no cell changes
\* in it; and a property that was held on s reads what it read when s was
\* cleared.
C12_ClearedIsInert ==
    \A k \in Clears :
        /\ \A d \in DripsInto(k) :
              /\ NoThunks(history[d].flowed)
              /\ NoThunks(history[d].state)
              /\ ObservedAt(d) = <<>>
              /\ \A c \in DOMAIN history[d].pre : After(d)[c] = history[d].pre[c]
        /\ \A c \in SeqToSet(built[k].before[built[k].s].updates) :
              props[c] = built[k].pre[c]

\* A stream with children, observers and a held property was injected into,
\* then cleared, then injected into with another value: the property still
\* reads the first value.
C12_Witness ==
    /\ Idle /\ Len(history) = 2
    /\ \E k \in Clears :
          LET n == built[k].s
          IN  /\ built[k].at = 1 /\ history[1].s = n /\ 2 \in DripsInto(k)
              /\ built[k].before[n].next # <<>>
              /\ built[k].before[n].observers # <<>>
              /\ ObservedAt(1) # <<>>
              /\ \E c \in SeqToSet(built[k].before[n].updates) :
                    props[c] = history[1].v /\ history[2].v # history[1].v

\* C13 as claimed: clear(n) empties the next, lazyNext, observers and updates
\* sets of n and of every node that was reachable from n by next or lazyNext
\* edges before the call, merge nodes included.
C13_ClearEmptiesReachable ==
    \A k \in Clears : \A x \in Reach(built[k].before, built[k].s) :
        built[k].after[x] = Emptied(built[k].after[x])

\* The graph with n taken out of every next and lazyNext set.
Detached(S, n) ==
    [x \in DOMAIN S |-> [S[x] EXCEPT !.next = SetDelete(@, n), !.lazyNext = SetDelete(@, n)]]

\* Drip d into q, made while n is still as clear left it and q still lists
\* n: the functor of n is applied when a value of q gets to n, and what the
\* traversal binds and visits is what it binds and visits with n unlinked,
\* the visit of n aside.
StillApplied(d, q, n) ==
    LET S    == history[d].graph
        cut  == flowLazy(Detached(S, n), history[d].pre, One(history[d].v), q)
        gets == \/ /\ Has(S[q].lazyNext, n)
                   /\ Emitted(d, q) # <<>>
                \/ /\ Has(S[q].next, n)
                   /\ \E v \in SeqToSet(Emitted(d, q)) : accepts(S, n, v)
    IN  /\ gets => CallsOn(d, n) # <<>>
        /\ history[d].flowed.observers = cut.observers
        /\ history[d].flowed.updates = cut.updates
        /\ history[d].flowed.waiting = cut.waiting
        /\ SelectSeq(history[d].flowed.calls, LAMBDA c : c.s # n) = cut.calls

\* C14: clear(n) leaves every node that is not n and was not reachable from n
\* exactly as it was, so every parent of n still lists n; and a later drip
\* into a parent still applies n's functor but gets no observer, update or
\* merge contribution from n.
C14_ClearFrame ==
    \A k \in Clears :
        LET n == built[k].s
            B == built[k].before
            A == built[k].after
        IN  /\ \A x \in DOMAIN B : x \notin Reach(B, n) => A[x] = B[x]
            /\ Parents(A, n) = Parents(B, n)
            /\ \A q \in Parents(B, n) :
                  /\ Has(A[q].next, n) <=> Has(B[q].next, n)
                  /\ Has(A[q].lazyNext, n) <=> Has(B[q].lazyNext, n)
            /\ \A d \in DOMAIN history : \A q \in Parents(B, n) :
                  ( /\ d > built[k].at
                    /\ history[d].s = q
                    /\ q \in Parents(history[d].graph, n)
                    /\ history[d].graph[n] = Emptied(history[d].graph[n]) )
                      => StillApplied(d, q, n)

\* A node with a parent, a sibling, observers and children was cleared, and
\* a drip into the parent then applied the node's functor and reached the
\* sibling's observer and not the node's.
C14_Witness ==
    /\ Idle /\ history # <<>>
    /\ \E k \in Clears :
          LET n == built[k].s
              B == built[k].before
              d == Len(history)
          IN  /\ d > built[k].at
              /\ B[n].observers # <<>> /\ B[n].next # <<>>
              /\ history[d].s \in Parents(B, n)
              /\ CallsOn(d, n) # <<>>
              /\ \E e \in DOMAIN observed : observed[e].d = d /\ observed[e].n # history[d].s
              /\ \A e \in DOMAIN observed : observed[e].d = d => observed[e].n # n

\* --- countRefs
Size(q) == Cardinality(SeqToSet(q))

\* The observers and update sinks attached directly to s.
Attached(S, s) == Size(S[s].observers) + Size(S[s].updates)

\* What a call adds to the number of things attached to its stream.
Gain(call) ==
    CASE call.op \in {"listen", "hold"} -> 1
      [] call.op = "unsubscribe"        -> 0 - 1
      [] call.op = "clear"              -> 0 - Attached(call.before, call.s)
      [] OTHER                          -> 0

\* C15: the accessor countRefs(s) reads the graph when it is called: at every
\* moment it returns the number of observers plus the number of update sinks
\* attached directly to s; a listen on s raises what it returns by one (to 1
\* on a fresh stream), running the unsubscribe function lowers it by one (to
\* 0 again), a hold on s raises it by one, clear(s) takes it to 0, and a
\* listen, unsubscribe or hold on another stream leaves it alone.
C15_ShallowCountLive ==
    /\ \A s \in DOMAIN streams : countRefs(streams, s, FALSE) = Attached(streams, s)
    /\ \A k \in DOMAIN built : \A s \in DOMAIN built[k].before :
          (built[k].op # "clear" \/ s = built[k].s) =>
              countRefs(built[k].after, s, FALSE)
                  = countRefs(built[k].before, s, FALSE)
                      + (IF s = built[k].s THEN Gain(built[k]) ELSE 0)
    /\ \A k \in DOMAIN built :
          (k > 1 /\ built[k].op = "unsubscribe" /\ built[k - 1].op = "listen"
                 /\ built[k - 1].s = built[k].s
                 /\ countRefs(built[k - 1].before, built[k].s, FALSE) = 0) =>
              /\ countRefs(built[k - 1].after, built[k].s, FALSE) = 1
              /\ countRefs(built[k].after, built[k].s, FALSE) = 0

\* A stream with nothing attached was listened to and the subscription was
\* cancelled: the accessor read 0, 1, 0.
C15_Witness ==
    /\ Len(built) = 2
    /\ built[1].op = "listen" /\ built[2].op = "unsubscribe" /\ built[1].s = built[2].s
    /\ countRefs(built[1].before, built[1].s, FALSE) = 0
    /\ countRefs(built[1].after, built[1].s, FALSE) = 1
    /\ countRefs(streams, built[1].s, FALSE) = 0

\* The observers and update sinks attached to the nodes of a set, each node
\* counted once.
RECURSIVE AttachedIn(_, _)
AttachedIn(S, ns) ==
    IF ns = {} THEN 0
    ELSE LET x == CHOOSE y \in ns : TRUE
         IN  Attached(S, x) + AttachedIn(S, ns \ {x})

\* C16 as claimed: the deep accessor countRefs(s, true) returns the number of
\* observers and update sinks attached to s and to the nodes reachable from s
\* by next or lazyNext edges, each node counted once, also when it is
\* reachable along more than one path.
C16_DeepCountOnce ==
    \A s \in DOMAIN streams :
        countRefs(streams, s, TRUE) = AttachedIn(streams, Reach(streams, s))

\* --- a functor that throws
\* The functor invocation c is one in which the user's function throws.
Throwing(S, c) == S[c.s].functor.k = "map" /\ Throws1(S[c.s].functor.f, c.in.v)

\* The nodes whose functor was invoked in call d and threw each time.
Thrown(d) ==
    {n \in DOMAIN history[d].graph :
        /\ CallsOn(d, n) # <<>>
        /\ \A i \in DOMAIN CallsOn(d, n) : Throwing(history[d].graph, CallsOn(d, n)[i])}

\* The graph with the nodes ns made dead ends: nothing attached, no children,
\* and a functor that returns.
DeadEnds(S, ns) ==
    [x \in DOMAIN S |-> IF x \in ns THEN [Emptied(S[x]) EXCEPT !.functor = parrot] ELSE S[x]]

NotOn(calls, ns) == SelectSeq(calls, LAMBDA c : c.s \notin ns)

\* C17: when the functor of a node N throws during a drip, the call returns
\* normally, the invocation of N is recorded as failed, and the traversal
\* binds, for every other node, exactly the observers, update sinks and merge
\* values it binds when N is a dead end: N's own and those below N are
\* dropped, those of N's ancestors and of the sibling subtrees are kept; and
\* the thunks bound are then run.
C17_FunctorFailureIsLocal ==
    \A d \in DOMAIN history :
        LET S     == history[d].graph
            ns    == Thrown(d)
            quiet == flowLazy(DeadEnds(S, ns), history[d].pre, One(history[d].v), history[d].s)
        IN  ns # {} =>
              /\ history[d].ret = "ok"
              /\ \A n \in ns : \A i \in DOMAIN CallsOn(d, n) : ~CallsOn(d, n)[i].ok
              /\ history[d].flowed.observers = quiet.observers
              /\ history[d].flowed.updates = quiet.updates
              /\ history[d].flowed.waiting = quiet.waiting
              /\ NotOn(history[d].flowed.calls, ns) = NotOn(quiet.calls, ns)
              /\ history[d].state = [history[d].flowed EXCEPT !.calls = <<>>]
              /\ RanNormally(d)

\* A drip in which the functor of a node with an observer and a child threw
\* while the observer of its parent, the observer of a sibling and the
\* observer of a merge stream fed by both ran, and a property held on the
\* parent was updated; the merge stream got the sibling's value alone.
C17_Witness ==
    /\ Idle /\ history # <<>>
    /\ LET d == Len(history)
           S == history[d].graph
       IN  \E n \in Thrown(d) : \E q \in Parents(S, n) : \E b \in SeqToSet(S[q].next) :
               \E m \in SeqToSet(S[n].lazyNext) :
                  /\ b # n /\ Has(S[b].lazyNext, m)
                  /\ S[n].observers # <<>> /\ S[n].next # <<>>
                  /\ \E e \in DOMAIN observed : observed[e].d = d /\ observed[e].n = q
                  /\ \E e \in DOMAIN observed : observed[e].d = d /\ observed[e].n = b
                  /\ \E e \in DOMAIN observed :
                        observed[e].d = d /\ observed[e].n = m /\ <<observed[e].v>> = Emitted(d, b)
                  /\ \A e \in DOMAIN observed : observed[e].d = d => observed[e].n # n
                  /\ \E c \in SeqToSet(S[q].updates) : props[c] # history[d].pre[c]

\* --- interval
Intervals == {t \in DOMAIN timers : timers[t].kind = "interval"}

\* The observer interval subscribed for timer t.
InternalOf(t) == CHOOSE g \in DOMAIN funcs : funcs[g].k = "interval" /\ funcs[g].pid = t

\* In graph S an observer other than g, or a held property, is attached to s
\* or to a stream derived from s.
Listening(S, s, g) ==
    \E x \in Reach(S, s) :
        \/ S[x].updates # <<>>
        \/ \E i \in DOMAIN S[x].observers : S[x].observers[i] # g

\* The same, for s itself only.
ListeningDirectly(S, s, g) ==
    \/ S[s].updates # <<>>
    \/ \E i \in DOMAIN S[s].observers : S[s].observers[i] # g

\* The graphs at the ticks of timer t so far, the tick in progress included.
TickGraphs(t) ==
    {history[d].graph : d \in {e \in DOMAIN history : history[e].s = timers[t].s}}
        \cup (IF ~Idle /\ stack[1].s = timers[t].s THEN {stack[1].graph} ELSE {})

\* C18 as claimed: an interval timer at every tick of which so far an
\* observer or held property other than the producer's own observer was
\* attached to the interval stream or to a stream derived from it has not
\* been cancelled.
C18_IntervalKeptWhileListened ==
    \A t \in Intervals :
        (\A G \in TickGraphs(t) : Listening(G, timers[t].s, InternalOf(t))) => timers[t].live

\* An interval timer is running, nothing but the producer's own observer is
\* attached to its stream or to a stream derived from it, and the run has a
\* tick left.
Unheard ==
    \E t \in Intervals :
        /\ timers[t].live
        /\ ~Listening(streams, timers[t].s, InternalOf(t))
        /\ Len(history) < MaxTicks

Cancelled == \A t \in Intervals : ~timers[t].live

FrameProducers == {g \in DOMAIN funcs : funcs[g].k = "frame"}

\* The frames of producer g so far: the drip calls into its stream.
FramesOf(g) == {d \in DOMAIN history : history[d].s = funcs[g].s}

\* C20 as claimed: with an external listener attached to the stream at every
\* frame, framecount(limit) emits at most limit frame states and the count
\* of an emitted state never exceeds limit.
C20_FrameLimit ==
    \A g \in FrameProducers :
        (\A d \in FramesOf(g) : ListeningDirectly(history[d].graph, funcs[g].s, g)) =>
            /\ Cardinality({d \in FramesOf(g) : Emitted(d, funcs[g].s) # <<>>}) <= funcs[g].limit
            /\ \A d \in FramesOf(g) : \A v \in SeqToSet(Emitted(d, funcs[g].s)) :
                  v <= funcs[g].limit

\* --- the order of the effects
\* The subtree of n: the streams reached from n by next edges, n included.
RECURSIVE BelowFrom(_, _, _)
BelowFrom(S, seen, front) ==
    IF front = {} THEN seen
    ELSE LET nxt == UNION {SeqToSet(S[n].next) : n \in front}
         IN  BelowFrom(S, seen \cup front, nxt \ (seen \cup front))

Below(S, n) == BelowFrom(S, {}, {n})

Index(q, x) == CHOOSE i \in DOMAIN q : q[i] = x

\* The stream a held cell was created on.
HeldOn(S, p) == CHOOSE n \in DOMAIN S : Has(S[n].updates, p)

\* The streams whose observers, and whose update sinks, call d bound, in the
\* order of the thunks.
ObserverNodes(d) == [i \in DOMAIN history[d].flowed.observers |-> history[d].flowed.observers[i].n]

UpdateNodes(d) ==
    [i \in DOMAIN history[d].flowed.updates |->
        HeldOn(history[d].graph, history[d].flowed.updates[i].p)]

\* In the sequence q of streams everything of A comes before everything of B.
Precedes(q, A, B) == \A i, j \in DOMAIN q : (q[i] \in A /\ q[j] \in B) => i < j

TraversalOrder(S, root, q) ==
    /\ \A n \in DOMAIN S : Precedes(q, {n}, Below(S, n) \ {n})
    /\ \A n \in DOMAIN S : \A k1, k2 \in DOMAIN S[n].next :
          k1 < k2 => Precedes(q, Below(S, S[n].next[k1]), Below(S, S[n].next[k2]))
    /\ \A from \in {root} \cup MergeStreams(S) : \A x \in Below(S, from) :
          \A m \in SeqToSet(S[x].lazyNext) : Precedes(q, Below(S, from), Below(S, m))

\* C21: in every drip call the observer thunks are ordered by the traversal:
\* those of one stream in subscription order, a stream's before those of the
\* streams below it, the subtrees of its children in the order of next, and
\* those of the streams reached through a merge stream after all those of the
\* traversal that fed the merge; the update thunks are ordered the same way
\* (those of one stream in the order the properties were held); and the
\* thunks run in that order.
C21_EffectsInTraversalOrder ==
    \A d \in DOMAIN history :
        LET S   == history[d].graph
            obs == history[d].flowed.observers
            ups == history[d].flowed.updates
        IN  /\ \A i, j \in DOMAIN obs :
                  (/\ obs[i].n = obs[j].n
                   /\ Index(S[obs[i].n].observers, obs[i].f)
                         < Index(S[obs[j].n].observers, obs[j].f)) => i < j
            /\ TraversalOrder(S, history[d].s, ObserverNodes(d))
            /\ \A i, j \in DOMAIN ups :
                  (/\ UpdateNodes(d)[i] = UpdateNodes(d)[j]
                   /\ Index(S[UpdateNodes(d)[i]].updates, ups[i].p)
                         < Index(S[UpdateNodes(d)[j]].updates, ups[j].p)) => i < j
            /\ TraversalOrder(S, history[d].s, UpdateNodes(d))
            /\ ObservedAt(d) = ExpectedLog(d, obs)
            /\ \A c \in DOMAIN history[d].pre : After(d)[c] = Applied(history[d].pre, ups)[c]

\* A drip whose observers ran on a stream with two observers, on a stream
\* below it, in the subtrees of two of its children and below a merge stream
\* that the subtrees fed, and that set properties held on a stream, below it
\* and below the merge stream.
C21_Witness ==
    /\ Idle /\ history # <<>>
    /\ LET d == Len(history)
           S == history[d].graph
           q == ObservedAt(d)
           u == UpdateNodes(d)
       IN  \E a \in DOMAIN S : \E k1, k2 \in DOMAIN S[a].next : \E m \in MergeStreams(S) :
              \E e \in Below(S, m) \ {m} :
                 /\ k1 < k2
                 /\ Len(SelectSeq(q, LAMBDA x : x.n = a)) >= 2
                 /\ \E i \in DOMAIN q : q[i].n = S[a].next[k1]
                 /\ \E i \in DOMAIN q : q[i].n = S[a].next[k2]
                 /\ \E x \in Below(S, a) : Has(S[x].lazyNext, m)
                 /\ \E i \in DOMAIN q : q[i].n = m
                 /\ \E i \in DOMAIN q : q[i].n = e
                 /\ \E i, j, k \in DOMAIN u :
                       /\ u[i] = a /\ u[j] \in Below(S, a) \ {a} /\ u[k] = e
                       /\ props[history[d].flowed.updates[k].p] # history[d].pre[history[d].flowed.updates[k].p]

\* --- hold in the copy of the engine in blooky-dom.ts
\* C22 as claimed: in that copy, once a drip call has returned, every
\* property held on a stream the call reached reads the value that reached
\* the stream; after drip(s)(v) into an identity stream s, a property held on
\* s reads v.
C22_DomHoldFollowsDrip ==
    \A d \in DOMAIN history :
        /\ \A i \in DOMAIN history[d].flowed.updates :
              After(d)[history[d].flowed.updates[i].p] = history[d].flowed.updates[i].v
        /\ IdentityRoot(history[d].graph, history[d].s) =>
              \A c \in SeqToSet(history[d].graph[history[d].s].updates) :
                  After(d)[c] = history[d].v

\* --- an observer that throws
\* The thunks that leave a record when they run: the recording observers and
\* the attribute bindings of connected elements.
Reports(th) ==
    funcs[th.f].k = "log" \/ (funcs[th.f].k = "bind" /\ funcs[th.f].v = 1)

Reported(d, obs) ==
    LET q == SelectSeq(obs, Reports)
    IN  [i \in DOMAIN q |-> Entry(d, q[i])]

\* The observer thunks that throw: an error of their own, or the one of a
\* drip call they make.
Fails(obs) == {i \in DOMAIN obs : funcs[obs[i].f].k \in {"fail", "redrip"}}

FirstOf(F) == CHOOSE i \in F : \A j \in F : i <= j

\* C23: a drip call in which an observer throws returns all the same, with
\* the empty state; the observers up to the failing one have run and none
\* after it, no held cell has changed, and the guard flag is down once the
\* call is over.
C23_ObserverFailureAborts ==
    /\ Idle => ~observerPhase
    /\ \A d \in DOMAIN history :
          LET obs == history[d].flowed.observers
          IN  Fails(obs) # {} =>
                /\ history[d].ret = "aborted"
                /\ history[d].state = NoState
                /\ ObservedAt(d) = Reported(d, SubSeq(obs, 1, FirstOf(Fails(obs))))
                /\ \A c \in DOMAIN history[d].pre : After(d)[c] = history[d].pre[c]

\* An observer threw an error of its own after an observer had run and before
\* another one was due, in a call that had bound an update of a cell to a new
\* value; the call has returned and the flag is down.
C23_Witness ==
    /\ Idle /\ ~observerPhase /\ history # <<>>
    /\ LET d   == Len(history)
           obs == history[d].flowed.observers
       IN  /\ history[d].ret = "aborted"
           /\ \E i \in Fails(obs) :
                 /\ funcs[obs[i].f].k = "fail"
                 /\ \E j \in DOMAIN obs : j < i /\ Reports(obs[j])
                 /\ \E j \in DOMAIN obs : j > i /\ Reports(obs[j])
           /\ ObservedAt(d) # <<>>
           /\ \E u \in DOMAIN history[d].flowed.updates :
                 history[d].flowed.updates[u].v # props[history[d].flowed.updates[u].p]

\* --- the thunks of a call are fixed by its pure phase
\* The graph once call d has returned.
GraphAfter(d) == IF d < Len(history) THEN history[d + 1].graph ELSE streams

\* C24: a drip call that returns normally has run exactly the observer
\* thunks and update thunks that the traversal of the graph as it was when
\* the call was made binds, whatever its observers did to the graph in the
\* meantime: every observer it ran was subscribed when the call was made,
\* and an observer that was subscribed then and reached has run even if it
\* was unsubscribed, or the edge to its stream removed, before its turn.
C24_ThunksFixedByPurePhase ==
    \A d \in DOMAIN history :
        history[d].ret = "ok" =>
            LET fixed == flowLazy(history[d].graph, history[d].pre,
                                  One(history[d].v), history[d].s)
            IN  /\ ObservedAt(d) = Reported(d, fixed.observers)
                /\ \A c \in DOMAIN history[d].pre :
                      After(d)[c] = Applied(history[d].pre, fixed.updates)[c]
                /\ \A e \in DOMAIN observed :
                      observed[e].d = d =>
                          Has(history[d].graph[observed[e].n].observers, observed[e].f)

\* Two calls have returned. In the first an observer ran although an earlier
\* observer of the call had unsubscribed it, a new observer was subscribed to
\* a stream the call reached and did not run, and an edge was added below a
\* stream the call reached without the stream at its end being entered. In
\* the second the new observer ran, and the observer of the stream at the end
\* of that edge ran although the edge had been removed before its turn.
C24_Witness ==
    /\ Idle /\ Len(history) = 2 /\ built = <<>>
    /\ history[1].ret = "ok" /\ history[2].ret = "ok"
    /\ \E e \in DOMAIN observed :
          /\ observed[e].d = 1
          /\ ~Has(GraphAfter(1)[observed[e].n].observers, observed[e].f)
    /\ \E e \in DOMAIN observed : \E x \in DOMAIN observed :
          /\ observed[e].d = 2 /\ observed[x].d = 1 /\ observed[x].n = observed[e].n
          /\ \A n \in DOMAIN history[1].graph : ~Has(history[1].graph[n].observers, observed[e].f)
    /\ \E n \in DOMAIN streams : \E o \in DOMAIN streams :
          /\ ~Has(history[1].graph[n].next, o) /\ Has(GraphAfter(1)[n].next, o)
          /\ CallsOn(1, n) # <<>> /\ CallsOn(1, o) = <<>>
          /\ ~Has(GraphAfter(2)[n].next, o)
          /\ \E e \in DOMAIN observed : observed[e].d = 2 /\ observed[e].n = o

\* --- a filter predicate that throws
\* The nodes that call d entered and whose value made the predicate of one of
\* their children throw, each time.
Refused(d) ==
    LET S == history[d].graph
    IN  {n \in DOMAIN S :
            /\ CallsOn(d, n) # <<>>
            /\ \A i \in DOMAIN CallsOn(d, n) :
                  /\ CallsOn(d, n)[i].ok
                  /\ \E c \in SeqToSet(S[n].next) :
                        S[c].filter # NoFilter /\ TestThrows(S[c].filter, CallsOn(d, n)[i].out)}

\* C25: when the predicate of a child of P throws during a drip, the call
\* returns normally and binds nothing of P or of the streams below P (no
\* observer, no update sink, and no child of P is entered), and for every
\* other stream exactly what it binds when P is a dead end: the merge streams
\* P feeds do not get P's value, those of P's ancestors and of the sibling
\* subtrees are kept; and the thunks bound are then run.
C25_FilterFailureDropsParent ==
    \A d \in DOMAIN history :
        LET S     == history[d].graph
            ns    == Refused(d)
            quiet == flowLazy(DeadEnds(S, ns), history[d].pre, One(history[d].v), history[d].s)
        IN  ns # {} =>
              /\ history[d].ret = "ok"
              /\ \A n \in ns : \A x \in Below(S, n) :
                    /\ \A i \in DOMAIN ObserverNodes(d) : ObserverNodes(d)[i] # x
                    /\ \A i \in DOMAIN UpdateNodes(d) : UpdateNodes(d)[i] # x
                    /\ x # n => CallsOn(d, x) = <<>>
              /\ history[d].flowed.observers = quiet.observers
              /\ history[d].flowed.updates = quiet.updates
              /\ NotOn(history[d].flowed.calls, ns) = NotOn(quiet.calls, ns)
              /\ history[d].state = [history[d].flowed EXCEPT !.calls = <<>>]
              /\ RanNormally(d)

\* A drip in which the predicate of a child of P threw, P having an observer,
\* a held property and a second child with an observer, none of which ran,
\* while the observer of P's parent and the observer of a sibling of P ran, a
\* merge stream fed by P and the sibling got the sibling's value alone, and a
\* property held on the parent was updated.
C25_Witness ==
    /\ Idle /\ history # <<>>
    /\ LET d == Len(history)
           S == history[d].graph
       IN  \E n \in Refused(d) : \E q \in Parents(S, n) : \E b \in SeqToSet(S[q].next) :
               \E m \in SeqToSet(S[n].lazyNext) : \E c \in SeqToSet(S[n].next) :
                  /\ b # n /\ Has(S[b].lazyNext, m)
                  /\ S[n].observers # <<>> /\ S[n].updates # <<>>
                  /\ S[c].filter = NoFilter /\ S[c].observers # <<>>
                  /\ \E e \in DOMAIN observed : observed[e].d = d /\ observed[e].n = q
                  /\ \E e \in DOMAIN observed : observed[e].d = d /\ observed[e].n = b
                  /\ InputsOf(d, m) = <<Arr(Emitted(d, b))>>
                  /\ \A e \in DOMAIN observed :
                        observed[e].d = d => observed[e].n \notin Below(S, n)
                  /\ \E u \in SeqToSet(S[q].updates) : props[u] # history[d].pre[u]

====
